---- MODULE Spec2Model ----
(***************************************************************************)
(* A model of the Jarvis trading agent: RiskEngine (src/src/risk.py),      *)
(* PaperExecutionEngine (src/src/paper_execution.py), AlphaEngine          *)
(* (src/src/alpha.py) and TradingBot (src/src/bot.py).                     *)
(*                                                                         *)
(* Units.  The program computes in floating point; the model uses scaled   *)
(* integers chosen so that every comparison the code makes is exact on     *)
(* the values the model draws:                                             *)
(*   prices                    currency units (mid prices are multiples of *)
(*                             2000 so that mid * spread / 2 is whole)     *)
(*   amounts                   1e-2 coins                                  *)
(*   equity, PnL               1e-2 currency units (price * amount)        *)
(*   spread, volatility        1e-4 (basis points of the mid price)        *)
(*   imbalances                tenths, in -10 .. 10                        *)
(*   direction score           1e-4, in -10000 .. 10000                    *)
(*   time                      minutes                                     *)
(*                                                                         *)
(* MarketData keeps the book and the candles of its last fetch, and the    *)
(* bot reads them only in the cycle that fetched them, so a cycle's        *)
(* snapshot is an input of that cycle.  The clock is read in two places:   *)
(* entry_time is the time of the entry, and _handle_position compares the  *)
(* time since then with the hold limit; the time a position has been held  *)
(* is an input of the cycle that reads it.                                 *)
(***************************************************************************)
EXTENDS Integers, Sequences, FiniteSets, TLC

VARIABLES
    daily_pnl,            \* RiskEngine.daily_pnl
    consecutive_losses,   \* RiskEngine.consecutive_losses
    is_active,            \* RiskEngine.is_active
    equity,               \* PaperExecutionEngine.equity
    position,             \* PaperExecutionEngine.position (NoPosition is None)
    pending_orders,       \* the execution engine's pending_orders
    entry_time,           \* TradingBot.entry_time (NoTime is None)
    start_equity,         \* TradingBot.start_equity
    pc,                   \* TradingBot.run: "init" before the loop, "loop" in it
    workers,              \* the explanation threads log_decision started
    cache,                \* LLMExplainer.cache
    last                  \* the last operation: its name, arguments, result,
                          \* the decision records it logged, the orders it placed

vars == <<daily_pnl, consecutive_losses, is_active, equity, position,
          pending_orders, entry_time, start_equity, pc, workers, cache,
          last>>

riskVars == <<daily_pnl, consecutive_losses, is_active>>
execVars == <<equity, position, pending_orders>>
explVars == <<workers, cache>>
botVars  == <<entry_time, start_equity, pc, explVars>>

----------------------------------------------------------------------------
(* Program constants (src/config.py and literals of src/src/bot.py).       *)

MAX_CONSECUTIVE_LOSSES == 3
MAX_SPREAD_THRESHOLD == 10
MAX_DAILY_DRAWDOWN_PERCENT == 2
MAX_HOLD_DURATION_CANDLES == 60
MAX_LEVERAGE_CAP == 5
STOP_LOSS_M_FACTOR == 2
HOLDING_HORIZON_CANDLES == 240
ENTRY_THRESHOLD == 4000
EXIT_THRESHOLD == 1000
INITIAL_EQUITY == 1000000

(* Bounds of the model.                                                    *)

MaxLossCount == 3     \* cap of consecutive_losses
MaxAbsPnl == 30000    \* cap of |daily_pnl|
MaxDrift == 20000     \* cap of |equity - INITIAL_EQUITY|
MaxWorkers == 2       \* cap of the explanation threads alive at a time
MaxEvictions == 2     \* cap of the entries evicted from the explainer's cache
MaxCacheFill == 1     \* cap of the entries added to an empty cache
MaxLines == 3         \* cap of the lines of the event log
MaxLimit == 2         \* cap of the limit parameter of GET /events
MaxOrders == 2        \* cap of the orders sent to both execution engines
MaxTiny == 4          \* largest imbalance below the normal range, in 2^-1074
MaxOrderId == 3       \* largest order id the exchange hands out

(* Inputs.                                                                 *)

Mids == {10000}                \* mid prices
Spreads == {10, 20}            \* 0.0010 (at the threshold), 0.0020 (above)
Vols == {0, 10}                \* realized volatility 0 and 0.0010
Books == {-10, 4, 10}          \* order-book imbalance -1.0, 0.4, 1.0
Flows == {0}                   \* order-flow imbalance 0.0
HeldMinutes == {1, 61}         \* minutes since entry_time, when it is set
Sides == {"buy", "sell"}       \* place_limit_order's side argument
Amounts == {100}                 \* 1 coin
Prices == {9800, 10000}
Pnls == {-10000, 0, 10000}
EquityInputs == {975000, 1000000}

NoTime == "None"
EntryTime == "utcnow"          \* datetime.utcnow() at the entry
NoPosition == [amount |-> 0, entry_price |-> 0, side |-> "none", timestamp |-> ""]

Abs(x) == IF x < 0 THEN -x ELSE x
\* The quotient of a / b rounded towards zero (b # 0).
Quot(a, b) ==
    IF b > 0
    THEN IF a >= 0 THEN a \div b ELSE -((-a) \div b)
    ELSE IF a >= 0 THEN -(a \div (-b)) ELSE (-a) \div (-b)

Min(a, b) == IF a <= b THEN a ELSE b

Record(type, reason) == [type |-> type, reason |-> reason]

Op(name, args, ret, emitted, orders, raised) ==
    [op |-> name, args |-> args, ret |-> ret, emitted |-> emitted,
     orders |-> orders, raised |-> raised]

----------------------------------------------------------------------------
(* AlphaEngine (src/src/alpha.py).                                         *)

\* tanh(k / 20) in units of 1e-4, for k in 0 .. 20, rounded to nearest.
TanhTable ==
    <<0, 500, 997, 1489, 1974, 2449, 2913, 3364, 3799, 4219, 4621, 5005,
      5370, 5717, 6044, 6351, 6640, 6911, 7163, 7398, 7616>>

\* np.tanh(combined) with combined = k / 20.
Tanh(k) == IF k >= 0 THEN TanhTable[k + 1] ELSE -TanhTable[(-k) + 1]

\* The combined imbalance returned without the tanh squashing, in 1e-4.
get_direction_score_unsquashed(book_imbalance, flow_imbalance) ==
    (book_imbalance + flow_imbalance) * 500

\* combined = 0.5 * book + 0.5 * flow; with both in tenths this is
\* (book + flow) / 20.
get_direction_score(book_imbalance, flow_imbalance) ==
    Tanh(book_imbalance + flow_imbalance)

\* 0.5 * x in double precision for x = n * 2^-1074, below the normal range:
\* the product is rounded to a multiple of 2^-1074, ties to even.
HalfEven(n) ==
    IF n % 2 = 0
    THEN n \div 2
    ELSE LET lo == (n - 1) \div 2
         IN  IF lo % 2 = 0 THEN lo ELSE lo + 1

\* get_direction_score on imbalances of a few 2^-1074, result in 2^-1074:
\* each product is rounded, their sum is exact, and tanh returns so small
\* an argument unchanged.
get_direction_score_tiny(book_imbalance, flow_imbalance) ==
    HalfEven(book_imbalance) + HalfEven(flow_imbalance)

----------------------------------------------------------------------------
(* RiskEngine (src/src/risk.py).                                           *)

\* update_pnl_state that leaves the streak alone on a non-losing trade.
update_pnl_state_no_reset(pnl, losses, trade_pnl, is_loss) ==
    [daily_pnl |-> pnl + trade_pnl,
     consecutive_losses |-> IF is_loss THEN losses + 1 ELSE losses]

\* update_pnl_state: the new (daily_pnl, consecutive_losses).
update_pnl_state(pnl, losses, trade_pnl, is_loss) ==
    [daily_pnl |-> pnl + trade_pnl,
     consecutive_losses |-> IF is_loss THEN losses + 1 ELSE 0]

\* check_can_trade without the loss-streak check.
check_can_trade_no_streak(active, losses, spread) ==
    IF ~active THEN FALSE
    ELSE IF spread > MAX_SPREAD_THRESHOLD THEN FALSE
    ELSE TRUE

\* check_can_trade with market_depth_healthy at its default True.
check_can_trade(active, losses, spread) ==
    IF ~active THEN FALSE
    ELSE IF losses >= MAX_CONSECUTIVE_LOSSES THEN FALSE
    ELSE IF spread > MAX_SPREAD_THRESHOLD THEN FALSE
    ELSE TRUE

\* The drawdown test with a strict comparison: a drop of exactly
\* MAX_DAILY_DRAWDOWN_PERCENT does not count.
DrawdownBreachedStrict(eq, start) ==
    IF start > 0
    THEN (eq - start) * 100 < -(MAX_DAILY_DRAWDOWN_PERCENT * start)
    ELSE (eq - start) * 100 > -(MAX_DAILY_DRAWDOWN_PERCENT * start)

\* current_dd <= -MAX_DAILY_DRAWDOWN_PERCENT, where
\* current_dd = (eq - start) / start and start # 0; the division is
\* cleared by multiplying with start, which flips the comparison when
\* start is negative.
DrawdownBreached(eq, start) ==
    IF start > 0
    THEN (eq - start) * 100 <= -(MAX_DAILY_DRAWDOWN_PERCENT * start)
    ELSE (eq - start) * 100 >= -(MAX_DAILY_DRAWDOWN_PERCENT * start)

\* check_daily_drawdown with a latch that clears when the equity is healthy
\* again.
check_daily_drawdown_resetting(active, eq, start) ==
    IF start = 0
    THEN [raised |-> "ZeroDivisionError", ret |-> FALSE, is_active |-> active]
    ELSE IF DrawdownBreached(eq, start)
    THEN [raised |-> "", ret |-> FALSE, is_active |-> FALSE]
    ELSE [raised |-> "", ret |-> TRUE, is_active |-> TRUE]

\* check_daily_drawdown that answers from the latch: once tripped it returns
\* False whatever the equity is.
check_daily_drawdown_latched(active, eq, start) ==
    IF start = 0
    THEN [raised |-> "ZeroDivisionError", ret |-> FALSE, is_active |-> active]
    ELSE IF DrawdownBreached(eq, start)
    THEN [raised |-> "", ret |-> FALSE, is_active |-> FALSE]
    ELSE [raised |-> "", ret |-> active, is_active |-> active]

\* check_daily_drawdown: the returned value and the new is_active; start = 0
\* makes the division raise.
check_daily_drawdown(active, eq, start) ==
    IF start = 0
    THEN [raised |-> "ZeroDivisionError", ret |-> FALSE, is_active |-> active]
    ELSE IF DrawdownBreached(eq, start)
    THEN [raised |-> "", ret |-> FALSE, is_active |-> FALSE]
    ELSE [raised |-> "", ret |-> TRUE, is_active |-> active]

\* math.sqrt(HOLDING_HORIZON_CANDLES) in hundredths: sqrt(240) = 15.49...
SqrtHorizonX100 == 1549

\* get_stop_loss_price that takes the move off the entry price for both
\* directions.
get_stop_loss_price_one_sided(entry_price, direction, volatility) ==
    LET move_bp == (STOP_LOSS_M_FACTOR * volatility * SqrtHorizonX100) \div 100
    IN  entry_price * (10000 - move_bp)

\* get_stop_loss_price, as a price in units of 1e-4:
\* move_pct = STOP_LOSS_M_FACTOR * volatility * sqrt_h, kept in basis points.
get_stop_loss_price(entry_price, direction, volatility) ==
    LET move_bp == (STOP_LOSS_M_FACTOR * volatility * SqrtHorizonX100) \div 100
    IN  IF direction = 1
        THEN entry_price * (10000 - move_bp)
        ELSE entry_price * (10000 + move_bp)

\* get_stop_loss_price for a volatility of 2^-k, far below the unit of the
\* operator above, where the rounding of the floating-point arithmetic
\* decides the result.  move_pct = 2^(1-k) * sqrt_h is exact up to the
\* rounding of sqrt_h.  In double precision (round to nearest, ties to
\* even) 1 - x is 1.0 exactly when x <= 2^-54 and 1 + x is 1.0 exactly when
\* x <= 2^-53; entry_price * 1.0 is entry_price, and for a normal
\* entry_price a factor other than 1.0 gives a different product.  The
\* operator returns the sign of (returned price - entry_price).
get_stop_loss_side(entry_price, direction, k) ==
    LET t == IF direction = 1 THEN 54 ELSE 53
        \* move_pct <= 2^-t, i.e. sqrt_h * 2^(t + 1) <= 2^k
        absorbed == /\ k >= t + 1
                    /\ SqrtHorizonX100 <= 100 * 2 ^ (k - t - 1)
    IN  IF absorbed THEN 0
        ELSE IF direction = 1 THEN -1 ELSE 1

\* The number of positional arguments calculate_position_size accepts
\* besides self (equity, volatility, mid_price).
SizingParams == 3

\* calculate_position_size: (quantity in 1e-2 coins, leverage in 1e-3).
\* risk_amt / worst_case_pct = (0.005 * equity) / (2 * vol * sqrt_h), which
\* is 2500 * equity / (vol * 100 * sqrt_h) with vol in units of 1e-4; the
\* leverage cap min(MAX_LEVERAGE_CAP, 1 / vol) is kept in tenths.
\* Only worst_case_pct == 0 returns (0, 0); for a negative volatility the
\* notional is negative and cap2 is 5.0.
calculate_position_size(eq, volatility, mid_price) ==
    IF volatility = 0
    THEN [qty |-> 0, lev |-> 0]
    ELSE LET notional ==
                 Quot(eq * 250, volatility * SqrtHorizonX100) * 10
             cap_x10 ==
                 IF volatility > 0
                 THEN Min(MAX_LEVERAGE_CAP * 10, 100000 \div volatility)
                 ELSE Min(MAX_LEVERAGE_CAP * 10, 50)
             max_notional == (eq * cap_x10) \div 10
             final == Min(notional, max_notional)
         IN  [qty |-> Quot(final, mid_price),
              lev |-> Quot(final * 100, eq \div 10)]

\* 0.5 / spread as a leverage in units of 1e-3 (spread in units of 1e-4).
SpreadCap(spread) == 5000000 \div spread

\* calculate_position_size_with_spread: the base size, cut down to the
\* spread cap when spread > 0 and the base leverage exceeds it.
calculate_position_size_with_spread(eq, volatility, mid_price, spread) ==
    LET base == calculate_position_size(eq, volatility, mid_price)
    IN  IF spread > 0
        THEN IF base.lev > SpreadCap(spread)
             THEN [qty |-> Quot((eq \div 1000) * SpreadCap(spread), mid_price),
                   lev |-> SpreadCap(spread)]
             ELSE base
        ELSE base

----------------------------------------------------------------------------
(* PaperExecutionEngine (src/src/paper_execution.py).                      *)

\* get_position: None when flat, else the position with the stored side.
get_position(pos) ==
    IF pos = NoPosition
    THEN NoPosition
    ELSE [amount |-> pos.amount, entryPrice |-> pos.entry_price,
          side |-> pos.side, unrealizedPnL |-> 0, timestamp |-> pos.timestamp]

\* The PnL of a closing fill: exit_val - entry_val when the stored side is
\* 'long', entry_val - exit_val otherwise.
ClosePnl(pos, amount, fill_price) ==
    LET entry_val == pos.entry_price * pos.amount
        exit_val == fill_price * amount
    IN  IF pos.side = "long" THEN exit_val - entry_val ELSE entry_val - exit_val

\* A place_limit_order that adds a same-side order to the held position
\* instead of ignoring it.
place_limit_order_adding(pos, eq, side, amount, price) ==
    IF pos # NoPosition
    THEN IF pos.side # side
         THEN [position |-> NoPosition,
               equity |-> eq + ClosePnl(pos, amount, price),
               status |-> "closed"]
         ELSE [position |-> [pos EXCEPT !.amount = @ + amount],
               equity |-> eq, status |-> "open"]
    ELSE [position |-> [amount |-> amount, entry_price |-> price,
                        side |-> side, timestamp |-> "utcnow"],
          equity |-> eq,
          status |-> "open"]

\* place_limit_order: the new position, the new equity and the returned
\* order handle's status ("none" for None).  The side stored on opening is
\* the order's side argument.
place_limit_order(pos, eq, side, amount, price) ==
    IF pos # NoPosition
    THEN IF pos.side # side
         THEN [position |-> NoPosition,
               equity |-> eq + ClosePnl(pos, amount, price),
               status |-> "closed"]
         ELSE [position |-> pos, equity |-> eq, status |-> "none"]
    ELSE [position |-> [amount |-> amount, entry_price |-> price,
                        side |-> side, timestamp |-> "utcnow"],
          equity |-> eq,
          status |-> "open"]

\* An order as the operation log keeps it.
Order(side, amount, price, status) ==
    [side |-> side, amount |-> amount, price |-> price, status |-> status]

----------------------------------------------------------------------------
(* ExecutionEngine (src/src/execution.py), the engine of the bot's live    *)
(* wiring.  A request to the exchange succeeds or raises (`ok`).           *)

\* ExecutionEngine.get_position: None when the request raises, when there
\* is no position or when its quantity is zero; else the position with the
\* side read off the sign of the quantity.
live_get_position(ok, pos) ==
    IF ~ok \/ pos = NoPosition
    THEN NoPosition
    ELSE IF pos.contracts = 0
    THEN NoPosition
    ELSE [amount |-> Abs(pos.contracts), entryPrice |-> pos.entryPrice,
          unrealizedPnL |-> pos.unrealizedPnl,
          side |-> IF pos.contracts > 0 THEN "long" ELSE "short"]

\* float(ExecutionEngine.fetch_balance()['total']): 0 when the request
\* raises.
live_fetch_balance(ok, eq) == IF ok THEN eq ELSE 0

\* ExecutionEngine.place_limit_order: the order the exchange created, or
\* None when create_order raises.  A limit order rests on the exchange; the
\* account changes when it fills.
live_place_limit_order(ok, side, amount, price) ==
    [position |-> position, equity |-> equity,
     status |-> IF ok THEN "open" ELSE "none"]

\* self.exec: the PaperExecutionEngine the bot constructs, or the
\* ExecutionEngine on an exchange that accepts the cycle's order or not.
PaperEngine == [kind |-> "paper"]
LiveEngine(order_ok) == [kind |-> "live", order_ok |-> order_ok]

\* self.exec.place_limit_order(side, amount, price)
exec_place_limit_order(exec, side, amount, price) ==
    IF exec.kind = "paper"
    THEN place_limit_order(position, equity, side, amount, price)
    ELSE live_place_limit_order(exec.order_ok, side, amount, price)

----------------------------------------------------------------------------
(* TradingBot (src/src/bot.py).                                            *)

\* The number of positional arguments _handle_entry passes to
\* calculate_position_size (equity, volatility, mid_price, spread).
SizingCallArgs == 4

\* What a step of the bot leaves behind: the records it logged, the orders
\* it placed, the fields it may have written and the exception it raised
\* ("" for none).
Outcome(emitted, orders, pos, eq, etime, pnl, losses, raised) ==
    [emitted |-> emitted, orders |-> orders, position |-> pos, equity |-> eq,
     entry_time |-> etime, daily_pnl |-> pnl, consecutive_losses |-> losses,
     raised |-> raised]

\* A step that logs `emitted`, raises `raised` and writes nothing.
NoEffect(emitted, raised) ==
    Outcome(emitted, <<>>, position, equity, entry_time, daily_pnl,
            consecutive_losses, raised)

\* The reason _handle_entry logs when check_can_trade refused.
SkipReason(spread, losses) ==
    IF spread > MAX_SPREAD_THRESHOLD THEN "SPREAD_TOO_HIGH"
    ELSE IF losses >= MAX_CONSECUTIVE_LOSSES THEN "MAX_CONSECUTIVE_LOSSES"
    ELSE "RISK_CONSTRAINT"

\* mid_price * (1 + spread / 2) for a buy, mid_price * (1 - spread / 2) for
\* a sell.
FillPrice(side, mid_price, spread) ==
    IF side = "buy"
    THEN mid_price + (mid_price * spread) \div 20000
    ELSE mid_price - (mid_price * spread) \div 20000

\* The sizing call of _handle_entry,
\* self.risk.calculate_position_size(equity, volatility, mid_price, spread):
\* a call with a number of arguments the method does not accept raises
\* TypeError before the method body runs.
entry_sizing(eq, volatility, mid_price, spread) ==
    IF SizingCallArgs # SizingParams
    THEN [raised |-> "TypeError", qty |-> 0, lev |-> 0]
    ELSE LET size == calculate_position_size(eq, volatility, mid_price)
         IN  [raised |-> "", qty |-> size.qty, lev |-> size.lev]

\* A _handle_entry that sets entry_time as soon as the risk gate lets the
\* entry through, before the sizing and the order.
handle_entry_on_stamping_first(exec, score, volatility, spread, mid_price, eq) ==
    IF Abs(score) < ENTRY_THRESHOLD
    THEN NoEffect(<<Record("TRADE_SKIPPED", "WEAK_SIGNAL")>>, "")
    ELSE IF ~check_can_trade(is_active, consecutive_losses, spread)
    THEN NoEffect(<<Record("TRADE_SKIPPED",
                           SkipReason(spread, consecutive_losses))>>, "")
    ELSE
    LET size == entry_sizing(eq, volatility, mid_price, spread)
        direction_str == IF score > 0 THEN "buy" ELSE "sell"
        fill_price == FillPrice(direction_str, mid_price, spread)
        order == exec_place_limit_order(exec, direction_str, size.qty,
                                        fill_price)
    IN  IF size.raised # "" \/ size.qty = 0
        THEN Outcome(<<>>, <<>>, position, equity, EntryTime, daily_pnl,
                     consecutive_losses, size.raised)
        ELSE Outcome(<<Record("TRADE_EXECUTED",
                              IF direction_str = "buy" THEN "ENTRY_BUY"
                                                       ELSE "ENTRY_SELL")>>,
                     <<Order(direction_str, size.qty, fill_price, order.status)>>,
                     order.position, order.equity, EntryTime, daily_pnl,
                     consecutive_losses, "")

\* _handle_entry with self.exec = exec.
handle_entry_on(exec, score, volatility, spread, mid_price, eq) ==
    IF Abs(score) < ENTRY_THRESHOLD
    THEN NoEffect(<<Record("TRADE_SKIPPED", "WEAK_SIGNAL")>>, "")
    ELSE
    LET direction_str == IF score > 0 THEN "buy" ELSE "sell"
    IN
    IF ~check_can_trade(is_active, consecutive_losses, spread)
    THEN NoEffect(<<Record("TRADE_SKIPPED",
                           SkipReason(spread, consecutive_losses))>>, "")
    ELSE
    LET size == entry_sizing(eq, volatility, mid_price, spread)
    IN
    IF size.raised # ""
    THEN NoEffect(<<>>, size.raised)
    ELSE IF size.qty = 0
    THEN NoEffect(<<Record("TRADE_SKIPPED", "ZERO_SIZE_CALC (High Vol?)")>>, "")
    ELSE
    LET fill_price == FillPrice(direction_str, mid_price, spread)
        order == exec_place_limit_order(exec, direction_str, size.qty,
                                        fill_price)
        placed == <<Order(direction_str, size.qty, fill_price, order.status)>>
    IN
    IF order.status # "none"
    THEN Outcome(<<Record("TRADE_EXECUTED",
                          IF direction_str = "buy" THEN "ENTRY_BUY"
                                                   ELSE "ENTRY_SELL")>>,
                 placed, order.position, order.equity, EntryTime, daily_pnl,
                 consecutive_losses, "")
    ELSE Outcome(<<Record("TRADE_SKIPPED", "ORDER_SUBMISSION_FAILED")>>,
                 placed, order.position, order.equity, entry_time, daily_pnl,
                 consecutive_losses, "")

handle_entry(score, volatility, spread, mid_price, eq) ==
    handle_entry_on(PaperEngine, score, volatility, spread, mid_price, eq)

\* The exit decision with should_exit starting as True: every held
\* position is closed, whatever the three checks say.
ExitDecision_default_exit(pos, score, volatility, mid_price, held_minutes) ==
    [should_exit |-> TRUE, exit_reason |-> ""]

\* The exit decision of _handle_position: the three checks in the code's
\* order, each overwriting should_exit and exit_reason when it fires.
ExitDecision(pos, score, volatility, mid_price, held_minutes) ==
    LET side == pos.side
        entry_price == pos.entryPrice
        none == [should_exit |-> FALSE, exit_reason |-> ""]
        after_signal ==
            IF side = "long" /\ score < -EXIT_THRESHOLD
            THEN [should_exit |-> TRUE, exit_reason |-> "SIGNAL_REVERSAL"]
            ELSE IF side = "short" /\ score > EXIT_THRESHOLD
            THEN [should_exit |-> TRUE, exit_reason |-> "SIGNAL_REVERSAL"]
            ELSE none
        \* pnl_pct <= 0, with entry_price > 0
        pnl_not_positive ==
            IF side = "long" THEN mid_price - entry_price <= 0
                             ELSE entry_price - mid_price <= 0
        stop_price == get_stop_loss_price(entry_price,
                                          IF side = "long" THEN 1 ELSE -1,
                                          volatility)
        stop_hit ==
            IF side = "long" /\ mid_price * 10000 < stop_price THEN TRUE
            ELSE IF side = "short" /\ mid_price * 10000 > stop_price THEN TRUE
            ELSE FALSE
        after_stop ==
            IF stop_hit
            THEN [should_exit |-> TRUE, exit_reason |-> "VOLATILITY_STOP"]
            ELSE after_signal
    IN  IF /\ entry_time # NoTime
           /\ held_minutes > MAX_HOLD_DURATION_CANDLES
           /\ pnl_not_positive
        THEN [should_exit |-> TRUE, exit_reason |-> "TIME_STOP"]
        ELSE after_stop

\* f"EXIT_{exit_reason}"
ExitRecordReason(exit_reason) ==
    CASE exit_reason = "SIGNAL_REVERSAL" -> "EXIT_SIGNAL_REVERSAL"
      [] exit_reason = "VOLATILITY_STOP" -> "EXIT_VOLATILITY_STOP"
      [] exit_reason = "TIME_STOP" -> "EXIT_TIME_STOP"
      [] OTHER -> "EXIT_"

\* _handle_position with self.exec = exec.
handle_position_on(exec, pos, score, volatility, mid_price, spread, held_minutes) ==
    LET side == pos.side
        entry_price == pos.entryPrice
        decision == ExitDecision(pos, score, volatility, mid_price, held_minutes)
    IN
    IF ~decision.should_exit
    THEN NoEffect(<<>>, "")
    ELSE
    LET close_side == IF side = "long" THEN "sell" ELSE "buy"
        fill_price == FillPrice(close_side, mid_price, spread)
        order == exec_place_limit_order(exec, close_side, pos.amount,
                                        fill_price)
        realized_pnl == IF side = "long"
                        THEN (fill_price - entry_price) * pos.amount
                        ELSE (entry_price - fill_price) * pos.amount
        risk == update_pnl_state(daily_pnl, consecutive_losses, realized_pnl,
                                 realized_pnl < 0)
    IN  Outcome(<<Record("TRADE_EXECUTED",
                         ExitRecordReason(decision.exit_reason))>>,
                <<Order(close_side, pos.amount, fill_price, order.status)>>,
                order.position, order.equity, NoTime, risk.daily_pnl,
                risk.consecutive_losses, "")

handle_position(pos, score, volatility, mid_price, spread, held_minutes) ==
    handle_position_on(PaperEngine, pos, score, volatility, mid_price, spread,
                       held_minutes)

\* A risk lock that also flattens: it closes the open position at the last
\* entry price and records the outcome.
RiskLockedFlatten(reason) ==
    IF position = NoPosition
    THEN NoEffect(<<Record("RISK_LOCKED", reason)>>, "")
    ELSE LET close_side == IF position.side = "buy" THEN "sell" ELSE "buy"
             order == place_limit_order(position, equity, close_side,
                                        position.amount, position.entry_price)
             risk == update_pnl_state(daily_pnl, consecutive_losses, 0, FALSE)
         IN  Outcome(<<Record("RISK_LOCKED", reason)>>,
                     <<Order(close_side, position.amount, position.entry_price,
                             order.status)>>,
                     order.position, order.equity, NoTime, risk.daily_pnl,
                     risk.consecutive_losses, "")

\* A decision of run_cycle that logs one RISK_LOCKED record and returns.
RiskLocked(reason) == NoEffect(<<Record("RISK_LOCKED", reason)>>, "")

\* run_cycle from "2. Compute Features" on, with self.exec = exec, whose
\* get_position returned `pos` and whose fetch_balance returned
\* `current_equity`: the outcome and the new is_active.  `snapshot` holds the features read from the feeds
\* and `held_minutes` the time since entry_time.
run_cycle_on(exec, pos, current_equity, snapshot, held_minutes) ==
    LET mid_price == snapshot.mid
        spread == snapshot.spread
        volatility == snapshot.volatility
        direction_score == get_direction_score(snapshot.book_imb,
                                               snapshot.flow_imb)
        dd == check_daily_drawdown(is_active, current_equity, start_equity)
    IN
    IF dd.raised # ""
    THEN [is_active |-> is_active, out |-> NoEffect(<<>>, dd.raised)]
    ELSE IF ~dd.ret
    THEN [is_active |-> dd.is_active,
          out |-> RiskLocked("DAILY_DRAWDOWN_LIMIT")]
    ELSE IF ~dd.is_active
    THEN [is_active |-> dd.is_active,
          out |-> RiskLocked("PREVIOUS_RISK_VIOLATION")]
    ELSE IF pos # NoPosition
    THEN [is_active |-> dd.is_active,
          out |-> handle_position_on(exec, pos, direction_score, volatility,
                                     mid_price, spread, held_minutes)]
    ELSE [is_active |-> dd.is_active,
          out |-> handle_entry_on(exec, direction_score, volatility, spread,
                                  mid_price, current_equity)]

\* run_cycle after a successful fetch on the paper engine.
run_cycle_after_fetch(snapshot, held_minutes) ==
    run_cycle_on(PaperEngine, get_position(position), equity, snapshot,
                 held_minutes)

\* A run_cycle that goes on with whatever the feeds hold when fetch_data
\* has returned False.
run_cycle_unchecked(fetched, snapshot, held_minutes) ==
    run_cycle_after_fetch(snapshot, held_minutes)

\* run_cycle: `fetched` is what fetch_data returned; on False the cycle
\* logs a warning and returns.
run_cycle(fetched, snapshot, held_minutes) ==
    IF ~fetched
    THEN [is_active |-> is_active, out |-> NoEffect(<<>>, "")]
    ELSE run_cycle_after_fetch(snapshot, held_minutes)

Snapshots ==
    [mid : Mids, spread : Spreads, volatility : Vols, book_imb : Books,
     flow_imb : Flows]

\* The snapshot of a cycle whose fetch failed.
NoData ==
    [mid |-> 0, spread |-> 0, volatility |-> 0, book_imb |-> 0, flow_imb |-> 0]

----------------------------------------------------------------------------
(* LLMExplainer (src/src/llm_explainer.py) and the threads that run it     *)
(* (TradingBot.log_decision, TradingBot._async_explain).                   *)
(*                                                                         *)
(* A record's signature is the MD5 of its JSON text, which holds the       *)
(* record's timestamp, so no two records share a signature and a lookup    *)
(* never hits.  The cache is a dict: it keeps its keys in insertion order, *)
(* next(iter(cache)) is its oldest key, and every new signature goes to    *)
(* the end.  The model keeps the number of the oldest key (`head`: keys    *)
(* are numbered in insertion order) and the number of keys (`len`).  Each  *)
(* dict operation is one step of a thread.                                 *)

cache_size == 1000

Slots == 1 .. MaxWorkers

Cache(n) == [head |-> 0, len |-> n]

\* A thread slot nobody runs in.
IdleWorker ==
    [pc |-> "idle", entry |-> Record("", ""), victim |-> -1,
     cache_read |-> FALSE, cache_written |-> FALSE]

\* The thread has been started and has not ended.
Live(w) == w.pc \notin {"idle", "done", "failed"}

\* One step of _async_explain(log_entry) in thread w on the cache c:
\*   signature  signature = self._create_signature(decision_log)
\*   lookup     if signature in self.cache
\*   call_llm   explanation = self._call_llm(decision_log)
\*   evict      if len(self.cache) > self.cache_size: next(iter(self.cache))
\*   pop        self.cache.pop(...): KeyError when the key is gone, which
\*              _async_explain catches and logs ("failed")
\*   store      self.cache[signature] = explanation
\*   log        logger.info(f"JARVIS_EXPLAINER: {explanation}")
explain_step(w, c) ==
    CASE w.pc = "signature" ->
           [worker |-> [w EXCEPT !.pc = "lookup"], cache |-> c]
      [] w.pc = "lookup" ->
           [worker |-> [w EXCEPT !.pc = "call_llm", !.cache_read = TRUE],
            cache |-> c]
      [] w.pc = "call_llm" ->
           [worker |-> [w EXCEPT !.pc = "evict"], cache |-> c]
      [] w.pc = "evict" ->
           IF c.len > cache_size
           THEN [worker |-> [w EXCEPT !.pc = "pop", !.victim = c.head,
                                      !.cache_read = TRUE],
                 cache |-> c]
           ELSE [worker |-> [w EXCEPT !.pc = "store", !.cache_read = TRUE],
                 cache |-> c]
      [] w.pc = "pop" ->
           IF w.victim = c.head /\ c.len > 0
           THEN [worker |-> [w EXCEPT !.pc = "store", !.cache_written = TRUE],
                 cache |-> [head |-> c.head + 1, len |-> c.len - 1]]
           ELSE [worker |-> [w EXCEPT !.pc = "failed"], cache |-> c]
      [] w.pc = "store" ->
           [worker |-> [w EXCEPT !.pc = "log", !.cache_written = TRUE],
            cache |-> [c EXCEPT !.len = @ + 1]]
      [] w.pc = "log" ->
           [worker |-> [w EXCEPT !.pc = "done"], cache |-> c]
      [] OTHER -> [worker |-> w, cache |-> c]

\* The slots no thread runs in.
FreeSlots(ws) == {s \in Slots : ~Live(ws[s])}

\* threading.Thread(target=self._async_explain, args=(log_entry,)).start()
start_explainer(ws, log_entry) ==
    LET s == CHOOSE f \in FreeSlots(ws) : \A g \in FreeSlots(ws) : f <= g
    IN  [ws EXCEPT ![s] = [pc |-> "signature", entry |-> log_entry,
                           victim |-> -1, cache_read |-> FALSE,
                           cache_written |-> FALSE]]

\* The threads after the log_decision calls of a cycle, one per record.
RECURSIVE log_decisions(_, _)
log_decisions(ws, emitted) ==
    IF emitted = <<>>
    THEN ws
    ELSE log_decisions(start_explainer(ws, Head(emitted)), Tail(emitted))

\* A log_decision that joins the thread it started: it returns when no
\* explanation thread is running.
log_decision_joins(ws) == \A s \in Slots : ~Live(ws[s])

\* log_decision returns as soon as the thread is started, whatever the
\* threads started earlier are doing: there is no join.
log_decision_returns(ws) == TRUE

----------------------------------------------------------------------------
(* The state machine.  The operations of the RiskEngine and of the paper   *)
(* engine are public and are also called directly, as the tests do.        *)

\* TradingBot.__init__, but for the explainer's cache.
Constructed ==
    /\ daily_pnl = 0
    /\ consecutive_losses = 0
    /\ is_active = TRUE
    /\ equity = INITIAL_EQUITY
    /\ position = NoPosition
    /\ pending_orders = {}
    /\ entry_time = NoTime
    /\ start_equity = INITIAL_EQUITY
    /\ pc = "init"
    /\ workers = [s \in Slots |-> IdleWorker]
    /\ last = Op("__init__", <<>>, "", <<>>, <<>>, "")

Init ==
    /\ Constructed
    /\ cache = Cache(0)

\* TradingBot.run up to its loop: start_equity is read from the balance.
Run ==
    /\ pc = "init"
    /\ start_equity' = equity
    /\ pc' = "loop"
    /\ last' = Op("run", <<>>, "", <<>>, <<>>, "")
    /\ UNCHANGED <<riskVars, execVars, entry_time, explVars>>

\* What self.run_cycle() does to the engines and the bot.
CycleEffect(fetched, snapshot, held_minutes) ==
    LET c == run_cycle(fetched, snapshot, held_minutes)
    IN  /\ is_active' = c.is_active
        /\ daily_pnl' = c.out.daily_pnl
        /\ consecutive_losses' = c.out.consecutive_losses
        /\ equity' = c.out.equity
        /\ position' = c.out.position
        /\ entry_time' = c.out.entry_time
        /\ last' = Op("run_cycle",
                      [fetched |-> fetched, snapshot |-> snapshot,
                       held_minutes |-> held_minutes],
                      "None", c.out.emitted, c.out.orders, c.out.raised)
        /\ UNCHANGED <<pending_orders, start_equity>>

\* One call of run_cycle; inside TradingBot.run's loop any exception it
\* raises is caught and logged, and the loop goes on.
RunCycle ==
    \E fetched \in BOOLEAN :
    \E snapshot \in IF fetched THEN Snapshots ELSE {NoData} :
    \E held_minutes \in IF entry_time = NoTime THEN {0} ELSE HeldMinutes :
        /\ CycleEffect(fetched, snapshot, held_minutes)
        /\ UNCHANGED <<pc, explVars>>

\* RiskEngine.update_pnl_state(trade_pnl, is_loss), with is_loss computed
\* from the PnL as its callers do (trade_pnl < 0).
UpdatePnlState ==
    \E trade_pnl \in Pnls :
        LET r == update_pnl_state(daily_pnl, consecutive_losses, trade_pnl,
                                  trade_pnl < 0)
        IN  /\ Abs(r.daily_pnl) <= MaxAbsPnl
            /\ r.consecutive_losses <= MaxLossCount
            /\ daily_pnl' = r.daily_pnl
            /\ consecutive_losses' = r.consecutive_losses
            /\ last' = Op("update_pnl_state",
                          [trade_pnl |-> trade_pnl, is_loss |-> trade_pnl < 0],
                          "None", <<>>, <<>>, "")
            /\ UNCHANGED <<is_active, execVars, botVars>>

\* RiskEngine.check_can_trade(spread).
CheckCanTrade ==
    \E spread \in Spreads :
        /\ last' = Op("check_can_trade", [spread |-> spread],
                      IF check_can_trade(is_active, consecutive_losses, spread)
                      THEN "True" ELSE "False",
                      <<>>, <<>>, "")
        /\ UNCHANGED <<riskVars, execVars, botVars>>

\* RiskEngine.check_daily_drawdown(equity, start_equity).
CheckDailyDrawdown ==
    \E eq \in EquityInputs :
        LET r == check_daily_drawdown(is_active, eq, INITIAL_EQUITY)
        IN  /\ is_active' = r.is_active
            /\ last' = Op("check_daily_drawdown",
                          [current_equity |-> eq,
                           start_equity |-> INITIAL_EQUITY],
                          IF r.ret THEN "True" ELSE "False", <<>>, <<>>,
                          r.raised)
            /\ UNCHANGED <<daily_pnl, consecutive_losses, execVars, botVars>>

\* PaperExecutionEngine.place_limit_order(side, amount, price).
PlaceLimitOrder ==
    \E side \in Sides, amount \in Amounts, price \in Prices :
        LET r == place_limit_order(position, equity, side, amount, price)
        IN  /\ Abs(r.equity - INITIAL_EQUITY) <= MaxDrift
            /\ position' = r.position
            /\ equity' = r.equity
            /\ last' = Op("place_limit_order",
                          [side |-> side, amount |-> amount, price |-> price],
                          r.status, <<>>,
                          <<Order(side, amount, price, r.status)>>, "")
            /\ UNCHANGED <<pending_orders, riskVars, botVars>>

Next ==
    \/ Run
    \/ RunCycle
    \/ UpdatePnlState
    \/ CheckCanTrade
    \/ CheckDailyDrawdown
    \/ PlaceLimitOrder

Spec == Init /\ [][Next]_vars

----------------------------------------------------------------------------
(* The calculations of the RiskEngine, called on their own with inputs    *)
(* drawn from small sets, in every state update_pnl_state and             *)
(* check_daily_drawdown can bring the engine into.                        *)

SizingEquities == {500000, 1000000}   \* equity 5000 and 10000
SizingVols == {-10, 0, 1, 10}         \* -0.0010, 0, 0.0001, 0.0010
SizingMids == {10000}
SizingSpreads == {0, 10, 5000}        \* 0, 0.0010, 0.5
StopEntryPrices == {9800, 10000}
StopDirections == {1, -1}             \* long, short
StopVols == {0, 1, 10}
StopVolLog2 == 55 .. 60               \* volatilities 2^-55 .. 2^-60

\* RiskEngine.calculate_position_size(equity, volatility, mid_price).
CalculatePositionSize ==
    \E eq \in SizingEquities, volatility \in SizingVols, mid_price \in SizingMids :
        /\ last' = Op("calculate_position_size",
                      [equity |-> eq, volatility |-> volatility,
                       mid_price |-> mid_price],
                      calculate_position_size(eq, volatility, mid_price),
                      <<>>, <<>>, "")
        /\ UNCHANGED <<riskVars, execVars, botVars>>

\* RiskEngine.calculate_position_size_with_spread(equity, volatility,
\* mid_price, spread).
CalculatePositionSizeWithSpread ==
    \E eq \in SizingEquities, volatility \in SizingVols, mid_price \in SizingMids :
    \E spread \in SizingSpreads :
        /\ last' = Op("calculate_position_size_with_spread",
                      [equity |-> eq, volatility |-> volatility,
                       mid_price |-> mid_price, spread |-> spread],
                      calculate_position_size_with_spread(eq, volatility,
                                                          mid_price, spread),
                      <<>>, <<>>, "")
        /\ UNCHANGED <<riskVars, execVars, botVars>>

\* The sizing call that _handle_entry makes for an entry.
EntrySizing ==
    \E eq \in SizingEquities, volatility \in SizingVols, mid_price \in SizingMids :
    \E spread \in SizingSpreads :
        LET r == entry_sizing(eq, volatility, mid_price, spread)
        IN  /\ last' = Op("entry_sizing",
                          [equity |-> eq, volatility |-> volatility,
                           mid_price |-> mid_price, spread |-> spread],
                          IF r.raised # "" THEN "None"
                          ELSE [qty |-> r.qty, lev |-> r.lev],
                          <<>>, <<>>, r.raised)
            /\ UNCHANGED <<riskVars, execVars, botVars>>

\* RiskEngine.get_stop_loss_price(entry_price, direction, volatility).
GetStopLossPrice ==
    \E entry_price \in StopEntryPrices, direction \in StopDirections :
    \E volatility \in StopVols :
        /\ last' = Op("get_stop_loss_price",
                      [entry_price |-> entry_price, direction |-> direction,
                       volatility |-> volatility],
                      get_stop_loss_price(entry_price, direction, volatility),
                      <<>>, <<>>, "")
        /\ UNCHANGED <<riskVars, execVars, botVars>>

\* RiskEngine.get_stop_loss_price(entry_price, direction, 2^-k): the result
\* is recorded by its side of the entry price.
GetStopLossPriceTiny ==
    \E entry_price \in StopEntryPrices, direction \in StopDirections :
    \E k \in StopVolLog2 :
        /\ last' = Op("get_stop_loss_price",
                      [entry_price |-> entry_price, direction |-> direction,
                       volatility_log2 |-> -k],
                      get_stop_loss_side(entry_price, direction, k),
                      <<>>, <<>>, "")
        /\ UNCHANGED <<riskVars, execVars, botVars>>

CalcNext ==
    \/ CalculatePositionSize
    \/ CalculatePositionSizeWithSpread
    \/ EntrySizing
    \/ GetStopLossPrice
    \/ GetStopLossPriceTiny
    \/ UpdatePnlState
    \/ CheckDailyDrawdown

CalcSpec == Init /\ [][CalcNext]_vars

----------------------------------------------------------------------------
(* The bot on the ExecutionEngine, its live wiring                         *)
(* self.exec = ExecutionEngine(self.md.exchange) (bot.py:43).              *)
(* Here `position` and `equity` are the position and the balance of the    *)
(* exchange account, which fills, funding and other clients change, and    *)
(* `pending_orders` holds, for every tracked order id, whether its age has *)
(* passed ORDER_TIMEOUT_SECONDS.  A request to the exchange succeeds or    *)
(* raises; which one is an input of the cycle.                             *)

OrderIds == {1}                     \* the ids the exchange hands out

\* Positions the exchange reports: signed contracts in 1e-2 coins.
ExchangePositions ==
    { [contracts |-> 100, entryPrice |-> 9795, unrealizedPnl |-> 0],
      [contracts |-> 100, entryPrice |-> 9995, unrealizedPnl |-> 0],
      [contracts |-> -100, entryPrice |-> 9805, unrealizedPnl |-> 0] }

ExchangeBalances == {980000, 1000000}

LiveSnapshots ==
    [mid : Mids, spread : {10}, volatility : {10}, book_imb : Books,
     flow_imb : Flows]

\* Which requests of a cycle the exchange answers: all of them, or all but
\* one.
AllAnswered ==
    [positions_ok |-> TRUE, balance_ok |-> TRUE, order_ok |-> TRUE]

ExchangeAnswers ==
    { AllAnswered,
      [AllAnswered EXCEPT !.positions_ok = FALSE],
      [AllAnswered EXCEPT !.balance_ok = FALSE],
      [AllAnswered EXCEPT !.order_ok = FALSE] }

\* A check_timeouts that forgets every order past the timeout, whether its
\* cancel request went through or not.
check_timeouts_forgetting(pending, cancel_failing) ==
    {o \in pending : ~o.timed_out}

\* ExecutionEngine.check_timeouts: every tracked order past the timeout is
\* cancelled; cancel_order drops the id unless the request raises.
check_timeouts(pending, cancel_failing) ==
    {o \in pending : ~o.timed_out \/ o.id \in cancel_failing}

\* The ids of the tracked orders older than ORDER_TIMEOUT_SECONDS.
TimedOut(pending) == {o.id : o \in {p \in pending : p.timed_out}}

\* A cycle that reaches check_timeouts only past the risk latch.
cycle_check_timeouts_if_active(fetched, pending, cancel_failing) ==
    IF fetched /\ is_active
    THEN check_timeouts(pending, cancel_failing)
    ELSE pending

\* The tracked orders after the cycle's call of check_timeouts: run_cycle
\* returns before the call when fetch_data fails, and makes it before the
\* drawdown check otherwise.
cycle_check_timeouts(fetched, pending, cancel_failing) ==
    IF fetched
    THEN check_timeouts(pending, cancel_failing)
    ELSE pending

\* The smallest id not tracked.
NewOrderId(pending) ==
    CHOOSE i \in OrderIds :
        /\ i \notin {o.id : o \in pending}
        /\ \A j \in OrderIds : j \notin {o.id : o \in pending} => i <= j

\* run_cycle of the bot on the ExecutionEngine.
live_run_cycle(fetched, snapshot, held_minutes, answers) ==
    IF ~fetched
    THEN [is_active |-> is_active, out |-> NoEffect(<<>>, "")]
    ELSE run_cycle_on(LiveEngine(answers.order_ok),
                      live_get_position(answers.positions_ok, position),
                      live_fetch_balance(answers.balance_ok, equity),
                      snapshot, held_minutes)

\* TradingBot.run up to its loop, on the ExecutionEngine.
LiveRun ==
    \E balance_ok \in BOOLEAN :
        /\ pc = "init"
        /\ start_equity' = live_fetch_balance(balance_ok, equity)
        /\ pc' = "loop"
        /\ last' = Op("run", [balance_ok |-> balance_ok], "", <<>>, <<>>, "")
        /\ UNCHANGED <<riskVars, execVars, entry_time, explVars>>

\* One call of run_cycle on the ExecutionEngine.
LiveRunCycle ==
    \E fetched \in BOOLEAN :
    \E snapshot \in IF fetched THEN LiveSnapshots ELSE {NoData} :
    \E held_minutes \in IF entry_time = NoTime THEN {0} ELSE HeldMinutes :
    \E answers \in IF fetched THEN ExchangeAnswers ELSE {AllAnswered} :
    \E cancel_failing \in IF fetched
                          THEN SUBSET {o.id : o \in pending_orders}
                          ELSE {{}} :
        LET c == live_run_cycle(fetched, snapshot, held_minutes, answers)
            kept == cycle_check_timeouts(fetched, pending_orders,
                                         cancel_failing)
            tracked == \E i \in 1..Len(c.out.orders) :
                           c.out.orders[i].status # "none"
        IN  /\ Abs(c.out.daily_pnl) <= MaxAbsPnl
            /\ c.out.consecutive_losses <= MaxLossCount
            /\ tracked => \E i \in OrderIds : i \notin {o.id : o \in kept}
            /\ is_active' = c.is_active
            /\ daily_pnl' = c.out.daily_pnl
            /\ consecutive_losses' = c.out.consecutive_losses
            /\ equity' = c.out.equity
            /\ position' = c.out.position
            /\ entry_time' = c.out.entry_time
            /\ pending_orders' =
                   IF tracked
                   THEN kept \cup {[id |-> NewOrderId(kept),
                                    timed_out |-> FALSE]}
                   ELSE kept
            /\ last' = Op("run_cycle",
                          [fetched |-> fetched, snapshot |-> snapshot,
                           held_minutes |-> held_minutes,
                           answers |-> answers,
                           timed_out |-> TimedOut(pending_orders),
                           cancel_failing |-> cancel_failing],
                          "None", c.out.emitted, c.out.orders, c.out.raised)
            /\ UNCHANGED <<start_equity, pc, explVars>>

\* The exchange account changes: a fill, a liquidation, another client.
ExchangeAccount ==
    \E pos \in ExchangePositions \cup {NoPosition} :
    \E balance \in ExchangeBalances :
        /\ position' = pos
        /\ equity' = balance
        /\ last' = Op("exchange", [position |-> pos, balance |-> balance],
                      "", <<>>, <<>>, "")
        /\ UNCHANGED <<riskVars, pending_orders, botVars>>

\* Time passes: a tracked order becomes older than the timeout.
OrderTimesOut ==
    \E o \in pending_orders :
        /\ ~o.timed_out
        /\ pending_orders' =
               (pending_orders \ {o}) \cup {[o EXCEPT !.timed_out = TRUE]}
        /\ last' = Op("sleep", [id |-> o.id], "", <<>>, <<>>, "")
        /\ UNCHANGED <<riskVars, equity, position, botVars>>

LiveNext ==
    \/ LiveRun
    \/ LiveRunCycle
    \/ ExchangeAccount
    \/ OrderTimesOut

LiveSpec == Init /\ [][LiveNext]_vars

----------------------------------------------------------------------------
(* TradingBot.run as a process: while True, run_cycle inside try/except    *)
(* Exception, then time.sleep(10).  pc is "loop" at the top of the loop    *)
(* body, "sleep" at the sleep and "dead" once an exception has left run.   *)
(* The paper engine's place_limit_order is also called from outside the    *)
(* loop, as in Spec.                                                       *)

\* A loop without the except clause: an exception raised by the cycle
\* leaves run.
CycleExitUncaught(raised) == IF raised # "" THEN "dead" ELSE "sleep"

\* Where run goes after self.run_cycle(): `except Exception` logs whatever
\* the cycle raised, and the sleep follows.
CycleExit(raised) == "sleep"

LoopCycle ==
    /\ pc = "loop"
    /\ \E fetched \in BOOLEAN :
       \E snapshot \in IF fetched THEN Snapshots ELSE {NoData} :
       \E held_minutes \in IF entry_time = NoTime THEN {0} ELSE HeldMinutes :
           /\ CycleEffect(fetched, snapshot, held_minutes)
           /\ pc' = CycleExit(run_cycle(fetched, snapshot,
                                        held_minutes).out.raised)
           /\ UNCHANGED explVars

\* time.sleep(10) returns.
Sleep ==
    /\ pc = "sleep"
    /\ pc' = "loop"
    /\ last' = Op("sleep", [seconds |-> 10], "None", <<>>, <<>>, "")
    /\ UNCHANGED <<riskVars, execVars, entry_time, start_equity, explVars>>

LoopNext ==
    \/ Run
    \/ LoopCycle
    \/ Sleep
    \/ PlaceLimitOrder

\* The interpreter keeps running the one thread of run: a step of run that
\* stays possible is eventually taken.
LoopSpec ==
    /\ Init
    /\ [][LoopNext]_vars
    /\ WF_vars(Run)
    /\ WF_vars(LoopCycle)
    /\ WF_vars(Sleep)

----------------------------------------------------------------------------
(* The run loop together with the explanation threads it starts.           *)

CacheSizes == {0, cache_size}        \* the cache when run starts

\* The cycles of this specification: one that logs WEAK_SIGNAL, one that
\* raises in the sizing call, and one whose fetch fails.
WorkerSnapshots ==
    [mid : Mids, spread : {10}, volatility : {10}, book_imb : {4, 10},
     flow_imb : Flows]

WorkerInit ==
    /\ Constructed
    /\ cache \in {Cache(n) : n \in CacheSizes}

\* One iteration of run's loop body on the given data, with the threads
\* its log_decision calls start.
WorkerCycle(fetched, snapshot, held_minutes) ==
    LET c == run_cycle(fetched, snapshot, held_minutes)
    IN  /\ pc = "loop"
        /\ Cardinality(FreeSlots(workers)) >= Len(c.out.emitted)
        /\ c.out.emitted # <<>> => log_decision_returns(workers)
        /\ CycleEffect(fetched, snapshot, held_minutes)
        /\ pc' = CycleExit(c.out.raised)
        /\ workers' = log_decisions(workers, c.out.emitted)
        /\ cache' = cache

WorkerLoopCycle ==
    \E fetched \in BOOLEAN :
    \E snapshot \in IF fetched THEN WorkerSnapshots ELSE {NoData} :
    \E held_minutes \in IF entry_time = NoTime THEN {0} ELSE HeldMinutes :
        WorkerCycle(fetched, snapshot, held_minutes)

\* One step of one explanation thread.
WorkerStep ==
    \E s \in Slots :
        LET r == explain_step(workers[s], cache)
        IN  /\ Live(workers[s])
            /\ r.cache.head <= MaxEvictions
            /\ r.cache.len > cache.len
                 => (r.cache.len <= MaxCacheFill \/ cache.len >= cache_size)
            /\ workers' = [workers EXCEPT ![s] = r.worker]
            /\ cache' = r.cache
            /\ last' = Op("_async_explain", [slot |-> s], "None", <<>>, <<>>,
                          IF r.worker.pc = "failed" THEN "KeyError" ELSE "")
            /\ UNCHANGED <<riskVars, execVars, entry_time, start_equity, pc>>

WorkerNext ==
    \/ Run
    \/ WorkerLoopCycle
    \/ Sleep
    \/ WorkerStep

WorkerSpec == WorkerInit /\ [][WorkerNext]_vars

----------------------------------------------------------------------------
(* The backend's GET /events (src/backend/app.py).  A line of the event    *)
(* log is blank (line.strip() is empty), malformed (json.loads raises) or  *)
(* the JSON text of an event, which json.loads turns into the event.       *)

BlankLine == [kind |-> "blank", event |-> 0]
MalformedLine == [kind |-> "malformed", event |-> 0]
JsonLine(e) == [kind |-> "json", event |-> e]

LogLines == {BlankLine, MalformedLine, JsonLine(1), JsonLine(2)}

RECURSIVE LogsOfLength(_)
LogsOfLength(n) ==
    IF n = 0
    THEN {<<>>}
    ELSE {Append(log, line) : log \in LogsOfLength(n - 1), line \in LogLines}

EventLogs == UNION {LogsOfLength(n) : n \in 0 .. MaxLines}
Limits == 0 .. MaxLimit

\* The loop `for line in reversed(lines)` from line i downwards, with the
\* events collected so far: a non-blank line is parsed and appended, or
\* skipped with `continue` when json.loads raises; after a blank line or an
\* append the loop ends once len(events) >= limit.
RECURSIVE scan_events(_, _, _, _)
scan_events(lines, i, events, limit) ==
    IF i = 0
    THEN events
    ELSE IF lines[i].kind = "malformed"
    THEN scan_events(lines, i - 1, events, limit)
    ELSE LET collected == IF lines[i].kind = "json"
                          THEN Append(events, lines[i].event)
                          ELSE events
         IN  IF Len(collected) >= limit
             THEN collected
             ELSE scan_events(lines, i - 1, collected, limit)

\* get_events(limit): [] when the log file does not exist.
get_events(exists, lines, limit) ==
    IF ~exists
    THEN <<>>
    ELSE scan_events(lines, Len(lines), <<>>, limit)

\* GET /events?limit=N on a log that is missing or holds the given lines.
GetEvents ==
    \E exists \in BOOLEAN :
    \E lines \in IF exists THEN EventLogs ELSE {<<>>} :
    \E limit \in Limits :
        /\ last' = Op("get_events",
                      [exists |-> exists, lines |-> lines, limit |-> limit],
                      get_events(exists, lines, limit), <<>>, <<>>, "")
        /\ UNCHANGED <<riskVars, execVars, botVars>>

EventsNext == GetEvents

EventsSpec == Init /\ [][EventsNext]_vars

----------------------------------------------------------------------------
(* The ExecutionEngine's order tracking on its own: place_limit_order,     *)
(* cancel_order and check_timeouts called in any order while time passes.  *)
(* The exchange gives every new order an id that no tracked order has.     *)

EngineOrderIds == 1 .. MaxOrderId

\* The ids of the tracked orders.
Tracked(pending) == {o.id : o \in pending}

\* self.pending_orders[order['id']] = time.time(), reached when
\* create_order has returned.
track_order(pending, ok, id) ==
    IF ok
    THEN {o \in pending : o.id # id} \cup {[id |-> id, timed_out |-> FALSE]}
    ELSE pending

\* ExecutionEngine.cancel_order: the id is dropped when the exchange has
\* accepted the cancel, and kept when the request raised.
cancel_order(pending, order_id, ok) ==
    IF ok THEN {o \in pending : o.id # order_id} ELSE pending

EnginePlaceLimitOrder ==
    \E side \in Sides, amount \in Amounts, price \in Prices :
    \E ok \in BOOLEAN :
    \E id \in EngineOrderIds \ Tracked(pending_orders) :
        /\ pending_orders' = track_order(pending_orders, ok, id)
        /\ last' = Op("place_limit_order",
                      [side |-> side, amount |-> amount, price |-> price,
                       ok |-> ok, id |-> id],
                      IF ok THEN "order" ELSE "None", <<>>,
                      <<Order(side, amount, price,
                              live_place_limit_order(ok, side, amount,
                                                     price).status)>>,
                      "")
        /\ UNCHANGED <<riskVars, equity, position, botVars>>

EngineCancelOrder ==
    \E order_id \in EngineOrderIds, ok \in BOOLEAN :
        /\ pending_orders' = cancel_order(pending_orders, order_id, ok)
        /\ last' = Op("cancel_order", [order_id |-> order_id, ok |-> ok],
                      "None", <<>>, <<>>, "")
        /\ UNCHANGED <<riskVars, equity, position, botVars>>

EngineCheckTimeouts ==
    \E cancel_failing \in SUBSET TimedOut(pending_orders) :
        /\ pending_orders' = check_timeouts(pending_orders, cancel_failing)
        /\ last' = Op("check_timeouts",
                      [timed_out |-> TimedOut(pending_orders),
                       cancel_failing |-> cancel_failing],
                      "None", <<>>, <<>>, "")
        /\ UNCHANGED <<riskVars, equity, position, botVars>>

EngineNext ==
    \/ EnginePlaceLimitOrder
    \/ EngineCancelOrder
    \/ EngineCheckTimeouts
    \/ OrderTimesOut

EngineSpec == Init /\ [][EngineNext]_vars

----------------------------------------------------------------------------
(* The two execution engines side by side: the same orders go to a         *)
(* PaperExecutionEngine and, through an ExecutionEngine, to an exchange    *)
(* that fills every order at once at its limit price.                      *)

\* The exchange account after an order filled at once: a buy adds
\* contracts, a sell takes them away, and a position opened from flat has
\* the fill price as its entry price.
exchange_fill(pos, side, amount, price) ==
    LET held == IF pos = NoPosition THEN 0 ELSE pos.contracts
        now == IF side = "buy" THEN held + amount ELSE held - amount
    IN  IF now = 0
        THEN NoPosition
        ELSE [contracts |-> now,
              entryPrice |-> IF held = 0 THEN price ELSE pos.entryPrice,
              unrealizedPnl |-> 0]

OrderInputs == [side : Sides, amount : Amounts, price : Prices]

RECURSIVE OrdersOfLength(_)
OrdersOfLength(n) ==
    IF n = 0
    THEN {<<>>}
    ELSE {Append(os, o) : os \in OrdersOfLength(n - 1), o \in OrderInputs}

OrderSequences == UNION {OrdersOfLength(n) : n \in 0 .. MaxOrders}

\* PaperExecutionEngine.position after the orders, from flat.
RECURSIVE paper_after(_, _, _)
paper_after(pos, eq, orders) ==
    IF orders = <<>>
    THEN pos
    ELSE LET o == Head(orders)
             r == place_limit_order(pos, eq, o.side, o.amount, o.price)
         IN  paper_after(r.position, r.equity, Tail(orders))

\* The exchange's position after the orders, from flat.
RECURSIVE exchange_after(_, _)
exchange_after(pos, orders) ==
    IF orders = <<>>
    THEN pos
    ELSE LET o == Head(orders)
         IN  exchange_after(exchange_fill(pos, o.side, o.amount, o.price),
                            Tail(orders))

\* What _handle_position reads of a position: None, or its amount, entry
\* price and side.
PositionView(pos) ==
    IF pos = NoPosition
    THEN [held |-> FALSE, amount |-> 0, entryPrice |-> 0, side |-> "none"]
    ELSE [held |-> TRUE, amount |-> pos.amount, entryPrice |-> pos.entryPrice,
          side |-> pos.side]

\* The exit decision of _handle_position on a position, None included.
ExitView(pos, snapshot) ==
    IF pos = NoPosition
    THEN [should_exit |-> FALSE, exit_reason |-> ""]
    ELSE ExitDecision(pos,
                      get_direction_score(snapshot.book_imb, snapshot.flow_imb),
                      snapshot.volatility, snapshot.mid, 0)

\* get_position of both engines after the same orders, and what
\* _handle_position decides on each of them with the same data.
GetPositions ==
    \E orders \in OrderSequences, snapshot \in Snapshots :
        LET paper == get_position(paper_after(NoPosition, INITIAL_EQUITY,
                                              orders))
            live == live_get_position(TRUE, exchange_after(NoPosition, orders))
        IN  /\ last' = Op("get_position",
                          [orders |-> orders, snapshot |-> snapshot],
                          [paper |-> PositionView(paper),
                           live |-> PositionView(live),
                           paper_exit |-> ExitView(paper, snapshot),
                           live_exit |-> ExitView(live, snapshot)],
                          <<>>, <<>>, "")
            /\ UNCHANGED <<riskVars, execVars, botVars>>

BackendNext == GetPositions

BackendSpec == Init /\ [][BackendNext]_vars

----------------------------------------------------------------------------
(* AlphaEngine.get_direction_score over its whole domain.                  *)

Imbalances == -10 .. 10                \* -1.0 .. 1.0 in tenths
TinyImbalances == -MaxTiny .. MaxTiny  \* multiples of 2^-1074

GetDirectionScore ==
    \E book_imbalance \in Imbalances, flow_imbalance \in Imbalances :
        /\ last' = Op("get_direction_score",
                      [book_imbalance |-> book_imbalance,
                       flow_imbalance |-> flow_imbalance, unit |-> "tenth"],
                      get_direction_score(book_imbalance, flow_imbalance),
                      <<>>, <<>>, "")
        /\ UNCHANGED <<riskVars, execVars, botVars>>

GetDirectionScoreTiny ==
    \E book_imbalance \in TinyImbalances, flow_imbalance \in TinyImbalances :
        /\ last' = Op("get_direction_score",
                      [book_imbalance |-> book_imbalance,
                       flow_imbalance |-> flow_imbalance, unit |-> "tiny"],
                      get_direction_score_tiny(book_imbalance, flow_imbalance),
                      <<>>, <<>>, "")
        /\ UNCHANGED <<riskVars, execVars, botVars>>

AlphaNext == GetDirectionScore \/ GetDirectionScoreTiny

AlphaSpec == Init /\ [][AlphaNext]_vars

----------------------------------------------------------------------------
(* Properties.                                                             *)

\* What the last operation was and what it was given.
IsCycle(l) == l.op = "run_cycle"
Fetched(l) == l.args.fetched
SnapshotOf(l) == l.args.snapshot
ScoreOf(l) ==
    get_direction_score(l.args.snapshot.book_imb, l.args.snapshot.flow_imb)
Emitted(l, type, reason) ==
    \E i \in 1..Len(l.emitted) :
        l.emitted[i] = Record(type, reason)

\* C1: the drawdown latch is one-way.  is_active starts true, and no
\* operation (check_daily_drawdown with recovered equity, update_pnl_state,
\* check_can_trade, place_limit_order, run, run_cycle) sets it back to true
\* once it is false.
C1_LatchOneWay ==
    /\ is_active = TRUE
    /\ [][~is_active => ~is_active']_vars

\* C1 witness: the latch is tripped and a later check_daily_drawdown was given
\* a healthy equity (it returned True) without clearing it.
C1_Witness ==
    /\ ~is_active
    /\ last.op = "check_daily_drawdown"
    /\ last.ret = "True"

IsLong(pos) == pos # NoPosition /\ pos.side \in {"long", "buy"}
IsShort(pos) == pos # NoPosition /\ pos.side \in {"short", "sell"}

\* The drawdown check lets the cycle through: the equity has not dropped by
\* MAX_DAILY_DRAWDOWN_PERCENT of a positive start equity.
EquityHealthy ==
    /\ start_equity > 0
    /\ (equity - start_equity) * 100 > -(MAX_DAILY_DRAWDOWN_PERCENT * start_equity)

\* The step is a cycle that fetched its data and passed the global risk
\* checks (the equity is healthy and the latch is not tripped).
TradingCycle ==
    /\ IsCycle(last')
    /\ Fetched(last')
    /\ is_active
    /\ EquityHealthy

\* C3: with consecutive_losses at MAX_CONSECUTIVE_LOSSES on an otherwise
\* fresh RiskEngine, check_can_trade returns False for every spread, and a
\* cycle that evaluates an entry logs TRADE_SKIPPED with reason
\* MAX_CONSECUTIVE_LOSSES whatever the score is.
C3_LossStreakHalt ==
    [][(is_active /\ consecutive_losses = MAX_CONSECUTIVE_LOSSES)
          => /\ last'.op = "check_can_trade" => last'.ret = "False"
             /\ (TradingCycle /\ position = NoPosition)
                   => last'.emitted =
                        <<Record("TRADE_SKIPPED", "MAX_CONSECUTIVE_LOSSES")>>]_vars

\* The first failing check of the risk gate in the order is_active,
\* consecutive_losses, spread ("" when none fails).
FirstFailingCheck(active, losses, spread) ==
    IF ~active THEN "RISK_LOCKED"
    ELSE IF losses >= MAX_CONSECUTIVE_LOSSES THEN "MAX_CONSECUTIVE_LOSSES"
    ELSE IF spread > MAX_SPREAD_THRESHOLD THEN "SPREAD_TOO_HIGH"
    ELSE ""

\* C4: when the risk gate rejects an entry, the TRADE_SKIPPED record carries
\* the first failing check in the order RISK_LOCKED, MAX_CONSECUTIVE_LOSSES,
\* SPREAD_TOO_HIGH.
C4_FirstFailingReason ==
    [][(/\ TradingCycle
        /\ position = NoPosition
        /\ Abs(ScoreOf(last')) >= ENTRY_THRESHOLD
        /\ FirstFailingCheck(is_active, consecutive_losses,
                             SnapshotOf(last').spread) # "")
          => last'.emitted =
               <<Record("TRADE_SKIPPED",
                        FirstFailingCheck(is_active, consecutive_losses,
                                          SnapshotOf(last').spread))>>]_vars

\* C5: a cycle that starts flat with the risk gate open, positive volatility
\* and |score| >= 0.4 ends with a position (long for score > 0, short
\* otherwise), entry_time set and exactly one record, TRADE_EXECUTED with
\* reason ENTRY_BUY (ENTRY_SELL).
C5_EntryOnStrongSignal ==
    [][(/\ TradingCycle
        /\ position = NoPosition
        /\ consecutive_losses < MAX_CONSECUTIVE_LOSSES
        /\ SnapshotOf(last').spread <= MAX_SPREAD_THRESHOLD
        /\ SnapshotOf(last').volatility > 0
        /\ Abs(ScoreOf(last')) >= ENTRY_THRESHOLD)
          => /\ Len(last'.orders) = 1
             /\ entry_time' # NoTime
             /\ IF ScoreOf(last') > 0
                THEN /\ IsLong(position')
                     /\ last'.emitted = <<Record("TRADE_EXECUTED", "ENTRY_BUY")>>
                ELSE /\ IsShort(position')
                     /\ last'.emitted = <<Record("TRADE_EXECUTED", "ENTRY_SELL")>>]_vars

\* The record is a TRADE_EXECUTED record of an exit.
IsExitRecord(r) ==
    /\ r.type = "TRADE_EXECUTED"
    /\ r.reason \in {"EXIT_SIGNAL_REVERSAL", "EXIT_VOLATILITY_STOP",
                     "EXIT_TIME_STOP"}

\* C6: in a cycle past the global risk checks, a long position (one opened by
\* a buy order) with score < -0.1, or a short position (one opened by a sell
\* order) with score > 0.1, is closed: no position is held afterwards and a
\* TRADE_EXECUTED record with an EXIT_ reason is logged.
C6_SignalReversalExit ==
    [][(/\ TradingCycle
        /\ \/ IsLong(position) /\ ScoreOf(last') < -EXIT_THRESHOLD
           \/ IsShort(position) /\ ScoreOf(last') > EXIT_THRESHOLD)
          => /\ position' = NoPosition
             /\ \E i \in 1..Len(last'.emitted) : IsExitRecord(last'.emitted[i])]_vars

\* The three exit conditions of a held position, as the claims state them.
ReversalCond(pos, score) ==
    \/ IsLong(pos) /\ score < -EXIT_THRESHOLD
    \/ IsShort(pos) /\ score > EXIT_THRESHOLD

StopCond(pos, volatility, mid_price) ==
    \/ /\ IsLong(pos)
       /\ mid_price * 10000 < get_stop_loss_price(pos.entry_price, 1, volatility)
    \/ /\ IsShort(pos)
       /\ mid_price * 10000 > get_stop_loss_price(pos.entry_price, -1, volatility)

TimeCond(pos, mid_price, etime, held_minutes) ==
    /\ etime # NoTime
    /\ held_minutes > MAX_HOLD_DURATION_CANDLES
    /\ IF IsLong(pos) THEN mid_price <= pos.entry_price
                      ELSE pos.entry_price <= mid_price

\* The reason of the last exit condition that is true.
LastTrueReason(reversal, stop, time) ==
    IF time THEN "EXIT_TIME_STOP"
    ELSE IF stop THEN "EXIT_VOLATILITY_STOP"
    ELSE IF reversal THEN "EXIT_SIGNAL_REVERSAL"
    ELSE ""

\* C7: in a cycle past the global risk checks with a position held, the
\* position is closed if and only if at least one of signal reversal,
\* volatility stop and time stop is true, and the EXIT record then carries
\* the reason of the last true condition in that order.
C7_ExitReasonOverwrite ==
    [][(TradingCycle /\ position # NoPosition)
          => LET snap == SnapshotOf(last')
                 reversal == ReversalCond(position, ScoreOf(last'))
                 stop == StopCond(position, snap.volatility, snap.mid)
                 time == TimeCond(position, snap.mid, entry_time,
                                  last'.args.held_minutes)
             IN  IF reversal \/ stop \/ time
                 THEN /\ position' = NoPosition
                      /\ last'.emitted =
                           <<Record("TRADE_EXECUTED",
                                    LastTrueReason(reversal, stop, time))>>
                 ELSE /\ position' = position
                      /\ last'.emitted = <<>>]_vars

\* The equity change a round trip owes: (F2 - F1) * q for a long,
\* (F1 - F2) * q for a short.
RoundTripDelta(pos, F2) ==
    IF IsLong(pos) THEN (F2 - pos.entry_price) * pos.amount
                   ELSE (pos.entry_price - F2) * pos.amount

\* C8: when a position opened at fill price F1 with quantity q is closed at
\* fill price F2, the equity changes by (F2 - F1) * q for a long and by
\* (F1 - F2) * q for a short; when the bot closes it, daily_pnl moves by the
\* same delta and consecutive_losses is incremented if the delta is negative
\* and reset to 0 otherwise.
C8_RoundTrip ==
    [][(/\ position # NoPosition
        /\ position' = NoPosition
        /\ Len(last'.orders) = 1)
          => LET delta == RoundTripDelta(position, last'.orders[1].price)
             IN  /\ equity' - equity = delta
                 /\ IsCycle(last')
                      => /\ daily_pnl' - daily_pnl = delta
                         /\ consecutive_losses' =
                              IF delta < 0 THEN consecutive_losses + 1
                                           ELSE 0]_vars

\* C9: update_pnl_state adds the trade's PnL to daily_pnl, increments
\* consecutive_losses by one when the PnL is negative and resets it to 0
\* otherwise (a PnL of zero resets), and leaves is_active alone;
\* consecutive_losses is a natural number in every reachable state.
C9_UpdatePnlState ==
    /\ [](consecutive_losses \in Nat)
    /\ [][last'.op = "update_pnl_state"
            => /\ daily_pnl' = daily_pnl + last'.args.trade_pnl
               /\ consecutive_losses' =
                    IF last'.args.trade_pnl < 0 THEN consecutive_losses + 1
                                                ELSE 0
               /\ is_active' = is_active]_vars

\* A zero-PnL outcome has just been recorded after losses and the streak is
\* back at 0.
C9_Witness ==
    /\ last.op = "update_pnl_state"
    /\ last.args.trade_pnl = 0
    /\ daily_pnl < 0
    /\ consecutive_losses = 0

\* C10: in a cycle that evaluates an entry (flat, past the global risk
\* checks), an order is placed only if |score| >= 0.4, is_active,
\* consecutive_losses < MAX_CONSECUTIVE_LOSSES, spread <=
\* MAX_SPREAD_THRESHOLD and the computed quantity is non-zero; if one of
\* them fails, no order is placed, the bot stays flat and a TRADE_SKIPPED
\* record is logged, with reason WEAK_SIGNAL when the score is too weak.
C10_EntryGateSafety ==
    [][(TradingCycle /\ position = NoPosition)
          => LET snap == SnapshotOf(last')
                 weak == Abs(ScoreOf(last')) < ENTRY_THRESHOLD
                 qty == calculate_position_size(equity, snap.volatility,
                                                snap.mid).qty
                 open == /\ ~weak
                         /\ is_active
                         /\ consecutive_losses < MAX_CONSECUTIVE_LOSSES
                         /\ snap.spread <= MAX_SPREAD_THRESHOLD
                         /\ qty # 0
             IN  /\ last'.orders # <<>> => open
                 /\ ~open
                      => /\ last'.orders = <<>>
                         /\ position' = NoPosition
                         /\ Len(last'.emitted) = 1
                         /\ last'.emitted[1].type = "TRADE_SKIPPED"
                         /\ weak => last'.emitted[1].reason = "WEAK_SIGNAL"]_vars

\* C11: a cycle whose drawdown check fails (the equity is down by at least
\* MAX_DAILY_DRAWDOWN_PERCENT of the start equity) logs exactly one record,
\* RISK_LOCKED with reason DAILY_DRAWDOWN_LIMIT, places no order and leaves
\* the position, entry_time, the equity, consecutive_losses and daily_pnl
\* as they were.
C11_DrawdownOverride ==
    [][(/\ IsCycle(last')
        /\ Fetched(last')
        /\ start_equity > 0
        /\ ~EquityHealthy)
          => /\ last'.emitted = <<Record("RISK_LOCKED", "DAILY_DRAWDOWN_LIMIT")>>
             /\ last'.orders = <<>>
             /\ last'.raised = ""
             /\ position' = position
             /\ entry_time' = entry_time
             /\ equity' = equity
             /\ consecutive_losses' = consecutive_losses
             /\ daily_pnl' = daily_pnl]_vars

\* C11 witness: a cycle has just been stopped by the drawdown check, at a
\* drop of exactly MAX_DAILY_DRAWDOWN_PERCENT, with a position open and a
\* signal against it.
C11_Witness ==
    /\ IsCycle(last)
    /\ last.emitted = <<Record("RISK_LOCKED", "DAILY_DRAWDOWN_LIMIT")>>
    /\ (equity - start_equity) * 100 = -(MAX_DAILY_DRAWDOWN_PERCENT * start_equity)
    /\ position # NoPosition
    /\ position.side = "sell"
    /\ ScoreOf(last) > EXIT_THRESHOLD

\* C12: once check_daily_drawdown has returned False (is_active is False),
\* every later check_daily_drawdown call returns False, also with healthy
\* equity.
C12_DrawdownStaysFalse ==
    [][(~is_active /\ last'.op = "check_daily_drawdown")
          => last'.ret = "False"]_vars

\* C12 as amended: once check_daily_drawdown has returned False, every later
\* check_daily_drawdown call leaves is_active False and check_can_trade
\* returns False for every spread; the call itself returns False exactly
\* when the equity passed to it is down by at least
\* MAX_DAILY_DRAWDOWN_PERCENT of the start equity, and True otherwise.
C12_LatchedNotReturned ==
    [][~is_active
          => /\ last'.op = "check_can_trade" => last'.ret = "False"
             /\ last'.op = "check_daily_drawdown"
                  => /\ ~is_active'
                     /\ last'.raised = ""
                     /\ last'.ret = "False"
                          <=> (last'.args.current_equity
                                 - last'.args.start_equity) * 100
                               <= -(MAX_DAILY_DRAWDOWN_PERCENT
                                      * last'.args.start_equity)]_vars

\* C12 witness: with the latch tripped, a check_daily_drawdown call with the
\* equity back at the start equity has returned True.
C12_Witness ==
    /\ ~is_active
    /\ last.op = "check_daily_drawdown"
    /\ last.args.current_equity = last.args.start_equity
    /\ last.ret = "True"

\* C13: a cycle that evaluates an entry with the risk gate open and
\* volatility 0 places no order, stays flat and logs one TRADE_SKIPPED
\* record with reason ZERO_SIZE_CALC, whatever the score is.
C13_ZeroVolatilitySkip ==
    [][(/\ TradingCycle
        /\ position = NoPosition
        /\ consecutive_losses < MAX_CONSECUTIVE_LOSSES
        /\ SnapshotOf(last').spread <= MAX_SPREAD_THRESHOLD
        /\ SnapshotOf(last').volatility = 0)
          => /\ last'.orders = <<>>
             /\ position' = NoPosition
             /\ last'.emitted = <<Record("TRADE_SKIPPED", "ZERO_SIZE_CALC")>>]_vars

\* C14: calculate_position_size and calculate_position_size_with_spread
\* return (0, 0) whenever the volatility is zero or negative, for every
\* equity, price and spread.
C14_NoSizeWithoutVolatility ==
    (/\ last.op \in {"calculate_position_size",
                     "calculate_position_size_with_spread"}
     /\ last.args.volatility <= 0)
        => last.ret = [qty |-> 0, lev |-> 0]

\* C15: for equity, price, volatility and spread all positive, the sizing
\* call of an entry returns a leverage that is positive and at most
\* min(MAX_LEVERAGE_CAP, 1 / volatility, 0.5 / spread) and a quantity >= 0
\* with quantity * price = leverage * equity (up to the rounding of the
\* model's units).
C15_EntrySizingBounds ==
    (/\ last.op = "entry_sizing"
     /\ last.args.equity > 0
     /\ last.args.mid_price > 0
     /\ last.args.volatility > 0
     /\ last.args.spread > 0)
        => /\ last.raised = ""
           /\ last.ret.lev > 0
           /\ last.ret.qty >= 0
           /\ last.ret.lev <= MAX_LEVERAGE_CAP * 1000
           /\ last.ret.lev * last.args.volatility <= 10000000
           /\ last.ret.lev <= SpreadCap(last.args.spread)
           /\ Abs(last.ret.qty * last.args.mid_price
                    - last.ret.lev * (last.args.equity \div 1000))
                <= last.args.mid_price + last.args.equity \div 1000

\* The last operation was get_stop_loss_price with a volatility in the
\* model's unit (InUnits) or with a volatility 2^-k (Tiny).
StopInUnits(l) ==
    l.op = "get_stop_loss_price" /\ "volatility" \in DOMAIN l.args
StopTiny(l) ==
    l.op = "get_stop_loss_price" /\ "volatility_log2" \in DOMAIN l.args

\* C16: for a positive entry price and a positive volatility,
\* get_stop_loss_price returns a price strictly below the entry price for a
\* long (direction 1) and strictly above it for a short, and the call
\* leaves daily_pnl, consecutive_losses and is_active as they were.
C16_StopStrictlyBeyond ==
    [][last'.op = "get_stop_loss_price"
          => /\ (StopInUnits(last') /\ last'.args.volatility > 0)
                  => IF last'.args.direction = 1
                     THEN last'.ret < last'.args.entry_price * 10000
                     ELSE last'.ret > last'.args.entry_price * 10000
             /\ StopTiny(last')
                  => IF last'.args.direction = 1 THEN last'.ret < 0
                                                 ELSE last'.ret > 0
             /\ daily_pnl' = daily_pnl
             /\ consecutive_losses' = consecutive_losses
             /\ is_active' = is_active]_vars

\* C16 as amended: for a positive entry price and a positive volatility,
\* get_stop_loss_price returns a price not above the entry price for a long
\* and not below it for a short, strictly below (above) it when the move
\* 2 * volatility * sqrt(H) is at least 2^-52 (k <= 56 for a volatility of
\* 2^-k, and every positive volatility in the model's unit); the call
\* leaves daily_pnl, consecutive_losses and is_active as they were.
C16_StopOnLosingSide ==
    [][last'.op = "get_stop_loss_price"
          => /\ (StopInUnits(last') /\ last'.args.volatility > 0)
                  => IF last'.args.direction = 1
                     THEN last'.ret < last'.args.entry_price * 10000
                     ELSE last'.ret > last'.args.entry_price * 10000
             /\ StopTiny(last')
                  => /\ IF last'.args.direction = 1 THEN last'.ret <= 0
                                                    ELSE last'.ret >= 0
                     /\ last'.args.volatility_log2 >= -56 => last'.ret # 0
             /\ daily_pnl' = daily_pnl
             /\ consecutive_losses' = consecutive_losses
             /\ is_active' = is_active]_vars

\* C16 witness: the stop of a short at a volatility of 2^-58 has come back
\* equal to the entry price while the stop of a long would not, on an
\* engine that is locked and has losses.
C16_Witness ==
    /\ StopTiny(last)
    /\ last.args.direction = -1
    /\ last.args.volatility_log2 = -58
    /\ last.ret = 0
    /\ get_stop_loss_side(last.args.entry_price, 1, 58) = -1
    /\ ~is_active
    /\ consecutive_losses > 0

\* C19: a cycle whose market-data fetch failed places no order, logs no
\* decision, does not run the drawdown check (is_active keeps its value)
\* and leaves position, equity, is_active, consecutive_losses, daily_pnl
\* and entry_time unchanged, and raises nothing.
C19_FetchFailureSkipsCycle ==
    [][(IsCycle(last') /\ ~Fetched(last'))
          => /\ last'.orders = <<>>
             /\ last'.emitted = <<>>
             /\ last'.raised = ""
             /\ position' = position
             /\ equity' = equity
             /\ is_active' = is_active
             /\ consecutive_losses' = consecutive_losses
             /\ daily_pnl' = daily_pnl
             /\ entry_time' = entry_time]_vars

\* C19 witness: a cycle without data has just run on an engine that is
\* still active although the equity is at the drawdown limit, with a
\* position open.
C19_Witness ==
    /\ IsCycle(last)
    /\ ~Fetched(last)
    /\ is_active
    /\ ~EquityHealthy
    /\ start_equity > 0
    /\ position # NoPosition

\* The last operation was a cycle on the ExecutionEngine.
IsLiveCycle(l) == IsCycle(l) /\ "answers" \in DOMAIN l.args

\* The step is a cycle on the ExecutionEngine that is due to submit an
\* entry order: data fetched, no position reported, the balance healthy,
\* the latch not tripped, a strong score, the risk gate open and a non-zero
\* computed quantity.
EntryOrderDue ==
    /\ IsLiveCycle(last')
    /\ Fetched(last')
    /\ last'.args.answers.balance_ok
    /\ live_get_position(last'.args.answers.positions_ok, position)
         = NoPosition
    /\ is_active
    /\ EquityHealthy
    /\ Abs(ScoreOf(last')) >= ENTRY_THRESHOLD
    /\ check_can_trade(is_active, consecutive_losses,
                       SnapshotOf(last').spread)
    /\ calculate_position_size(equity, SnapshotOf(last').volatility,
                               SnapshotOf(last').mid).qty # 0

C18_FailedCloseSkipped ==
    [][(/\ IsLiveCycle(last')
        /\ live_get_position(last'.args.answers.positions_ok, position)
             # NoPosition
        /\ Len(last'.orders) = 1
        /\ last'.orders[1].status = "none")
          => /\ \A i \in 1..Len(last'.emitted) :
                    last'.emitted[i].type # "TRADE_EXECUTED"
             /\ consecutive_losses' = consecutive_losses
             /\ daily_pnl' = daily_pnl
             /\ entry_time' = entry_time]_vars

\* A cycle of the run loop has just ended, and run is at its sleep.
CycleAttempted == pc = "sleep" /\ IsCycle(last)

\* C20: an exception raised inside a cycle never ends the run loop: after
\* every cycle that raised, run is again at the top of its loop, and cycles
\* are attempted infinitely often.
C20_LoopNeverStops ==
    /\ []<>CycleAttempted
    /\ (IsCycle(last) /\ last.raised # "") ~> (pc = "loop")

\* C20 witness: a cycle of the loop has raised TypeError and run is at its
\* sleep, not dead.
C20_Witness ==
    /\ CycleAttempted
    /\ last.raised = "TypeError"
    /\ last.emitted = <<>>

\* The last operation was a step of an explanation thread.
IsWorkerStep(l) == l.op = "_async_explain"

RECURSIVE RecentFirst(_, _)
RecentFirst(lines, i) ==
    IF i = 0
    THEN <<>>
    ELSE IF lines[i].kind = "json"
    THEN <<lines[i].event>> \o RecentFirst(lines, i - 1)
    ELSE RecentFirst(lines, i - 1)

\* The first n elements of a sequence, or all of it.
Take(seq, n) == SubSeq(seq, 1, Min(n, Len(seq)))

\* C22: GET /events?limit=N returns at most N events, namely the first N
\* of the log's well-formed lines taken most recent first, blank and
\* malformed lines being skipped without error, and an empty list when the
\* log file is missing.
C22_LastEvents ==
    last.op = "get_events"
        => /\ last.raised = ""
           /\ Len(last.ret) <= last.args.limit
           /\ last.ret =
                IF last.args.exists
                THEN Take(RecentFirst(last.args.lines, Len(last.args.lines)),
                          last.args.limit)
                ELSE <<>>

\* The orders are one entry, or an entry and the order that closes it: the
\* sequences both engines accept.
EntryThenClose(orders) ==
    \/ Len(orders) <= 1
    \/ orders[2].side # orders[1].side

\* C23: after the same immediately filled orders the two engines report the
\* same position to the bot (both none, or the same amount, entry price and
\* side), the side is 'long' after a buy entry and 'short' after a sell
\* entry, and _handle_position decides the same on both with the same data.
C23_BackendsInterchangeable ==
    (last.op = "get_position" /\ EntryThenClose(last.args.orders))
        => /\ last.ret.paper = last.ret.live
           /\ last.ret.paper_exit = last.ret.live_exit
           /\ Len(last.args.orders) = 1
                => last.ret.paper.side =
                     IF last.args.orders[1].side = "buy" THEN "long"
                                                         ELSE "short"

Sign(x) == IF x > 0 THEN 1 ELSE IF x < 0 THEN -1 ELSE 0

\* The score of a call on the same unit as last's, and the domain of that
\* unit.
ScoreIn(unit, book, flow) ==
    IF unit = "tenth" THEN get_direction_score(book, flow)
                      ELSE get_direction_score_tiny(book, flow)

DomainOf(unit) == IF unit = "tenth" THEN Imbalances ELSE TinyImbalances

\* The returned score is strictly inside (-1, 1) and does not decrease when
\* either argument grows with the other held fixed.
ScoreBoundedMonotone ==
    LET a == last.args
    IN  /\ a.unit = "tenth" => Abs(last.ret) < 10000
        /\ \A x \in DomainOf(a.unit) :
             /\ x >= a.book_imbalance
                  => ScoreIn(a.unit, x, a.flow_imbalance) >= last.ret
             /\ x >= a.flow_imbalance
                  => ScoreIn(a.unit, a.book_imbalance, x) >= last.ret

\* C24 as stated: for all imbalances in [-1, 1] the score is strictly inside
\* (-1, 1), non-decreasing in each argument, and has the sign of
\* book + flow.
C24_ScoreSignEverywhere ==
    last.op = "get_direction_score"
        => /\ ScoreBoundedMonotone
           /\ Sign(last.ret)
                = Sign(last.args.book_imbalance + last.args.flow_imbalance)

\* C24: for all imbalances in [-1, 1] the score is tanh(0.5*book + 0.5*flow)
\* strictly inside (-1, 1) and non-decreasing in each argument; its sign is
\* never opposite to the sign of book + flow, and equals it when both
\* imbalances are in the normal range of a double (or zero).
C24_ScoreSign ==
    last.op = "get_direction_score"
        => LET sum == last.args.book_imbalance + last.args.flow_imbalance
           IN  /\ ScoreBoundedMonotone
               /\ Sign(last.ret) * Sign(sum) >= 0
               /\ last.args.unit = "tenth"
                    => /\ Sign(last.ret) = Sign(sum)
                       /\ last.ret = Tanh(sum)

C24_Witness ==
    /\ last.op = "get_direction_score"
    /\ last.args.unit = "tenth"
    /\ last.args.book_imbalance = 10
    /\ last.args.flow_imbalance = -4
    /\ last.ret = 2913

\* The step is a cycle past the global risk checks that holds a position of
\* which none of the three exit conditions is true.
HoldCycle ==
    /\ TradingCycle
    /\ position # NoPosition
    /\ ~ReversalCond(position, ScoreOf(last'))
    /\ ~StopCond(position, SnapshotOf(last').volatility, SnapshotOf(last').mid)
    /\ ~TimeCond(position, SnapshotOf(last').mid, entry_time,
                 last'.args.held_minutes)

\* C25: pure hold.  In a cycle where a position is held, the risk gate is
\* not locked and none of the three exit conditions is true, no order is
\* placed, no decision record is emitted, and position, equity, entry_time,
\* consecutive_losses and daily_pnl are unchanged.
C25_PureHold ==
    [][HoldCycle
          => /\ last'.orders = <<>>
             /\ last'.emitted = <<>>
             /\ last'.raised = ""
             /\ UNCHANGED <<position, equity, entry_time, consecutive_losses,
                            daily_pnl>>]_vars

\* A cycle has just held a long position whose score, stop and holding time
\* all allow it to stay.
C25_Witness ==
    /\ IsCycle(last)
    /\ Fetched(last)
    /\ is_active
    /\ EquityHealthy
    /\ IsLong(position)
    /\ position.entry_price = 10000
    /\ ScoreOf(last) > 0
    /\ ~StopCond(position, SnapshotOf(last).volatility, SnapshotOf(last).mid)
    /\ last.emitted = <<>>
    /\ last.orders = <<>>

\* The unrealized PnL percentage of the position at the mid price is <= 0.
PnlNotPositive(pos, mid_price) ==
    IF IsLong(pos) THEN mid_price <= pos.entry_price
                   ELSE pos.entry_price <= mid_price

\* C26: time stop.  A held position is closed with reason TIME_STOP in a
\* cycle if and only if the time since it was opened exceeds
\* MAX_HOLD_DURATION_CANDLES and its unrealized PnL percentage at the mid
\* price is <= 0, and every held position has an open time against which
\* the limit is measured.
C26_TimeStop ==
    [][(TradingCycle /\ position # NoPosition)
          => /\ entry_time # NoTime
             /\ Emitted(last', "TRADE_EXECUTED", "EXIT_TIME_STOP")
                  <=> /\ last'.args.held_minutes > MAX_HOLD_DURATION_CANDLES
                      /\ PnlNotPositive(position, SnapshotOf(last').mid)]_vars

\* The cycle has cancelled every tracked order past the timeout whose
\* cancel request the exchange accepts, has kept the other tracked orders,
\* and tracks the order it placed itself.
StaleOrdersCancelled ==
    /\ \A o \in pending_orders :
         IF o.timed_out /\ o.id \notin last'.args.cancel_failing
         THEN o \notin pending_orders'
         ELSE o \in pending_orders'
    /\ \A i \in 1..Len(last'.orders) :
         last'.orders[i].status # "none"
            => \E o \in pending_orders' \ pending_orders : ~o.timed_out

C28_WorkersShareNothing ==
    /\ \A s \in Slots : \A t \in Slots \ {s} :
         (Live(workers[s]) /\ Live(workers[t]))
            => ~(/\ workers[s].cache_written
                 /\ workers[t].cache_read \/ workers[t].cache_written)
    /\ \A s \in Slots : workers[s].pc # "failed"

\* C29: single position slot in the paper engine.  An order on the side of
\* the held position is rejected (returns None) and leaves position and
\* equity unchanged; an opposite-side order removes the position entirely;
\* an order placed while flat opens a position at exactly the given price
\* and amount and leaves equity unchanged.
C29_SinglePositionSlot ==
    [][last'.op = "place_limit_order"
          => LET a == last'.args
             IN  IF position = NoPosition
                 THEN /\ position' # NoPosition
                      /\ position'.amount = a.amount
                      /\ position'.entry_price = a.price
                      /\ position'.side = a.side
                      /\ equity' = equity
                      /\ last'.ret = "open"
                 ELSE IF position.side = a.side
                 THEN /\ last'.ret = "none"
                      /\ position' = position
                      /\ equity' = equity
                 ELSE /\ position' = NoPosition
                      /\ last'.ret = "closed"]_vars

\* A buy order at another price has just been rejected on a held long.
C29_Witness ==
    /\ last.op = "place_limit_order"
    /\ last.ret = "none"
    /\ last.args.side = "buy"
    /\ last.args.price = 10000
    /\ position # NoPosition
    /\ position.side = "buy"
    /\ position.entry_price = 9800
    /\ position.amount = 100

\* The loss-streak lockout with no position held.
LockedOut ==
    /\ consecutive_losses >= MAX_CONSECUTIVE_LOSSES
    /\ position = NoPosition

\* C30: the loss-streak lockout is absorbing.  A cycle that starts with
\* consecutive_losses >= MAX_CONSECUTIVE_LOSSES and no position held places
\* no order, ends with no position held and does not decrease
\* consecutive_losses, so the same holds of every later cycle; an entry the
\* signal asks for is refused at the risk gate, before any sizing: the
\* cycle logs one TRADE_SKIPPED record and raises nothing.
C30_LossStreakAbsorbing ==
    [][(LockedOut /\ IsCycle(last'))
          => /\ last'.orders = <<>>
             /\ position' = NoPosition
             /\ consecutive_losses' >= consecutive_losses
             /\ (TradingCycle /\ Abs(ScoreOf(last')) >= ENTRY_THRESHOLD)
                   => /\ Len(last'.emitted) = 1
                      /\ last'.emitted[1].type = "TRADE_SKIPPED"
                      /\ last'.raised = ""]_vars

\* A cycle with a strong signal has just been refused by the loss-streak
\* lockout, and the lockout still stands.
C30_Witness ==
    /\ IsCycle(last)
    /\ Fetched(last)
    /\ Abs(ScoreOf(last)) >= ENTRY_THRESHOLD
    /\ last.emitted = <<Record("TRADE_SKIPPED", "MAX_CONSECUTIVE_LOSSES")>>
    /\ last.orders = <<>>
    /\ LockedOut

CancelSucceeded(o) ==
    \/ /\ last'.op = "cancel_order"
       /\ last'.args.order_id = o.id
       /\ last'.args.ok
    \/ /\ last'.op = "check_timeouts"
       /\ o.timed_out
       /\ o.id \notin last'.args.cancel_failing

\* C32: in the live ExecutionEngine every order id returned by a successful
\* place_limit_order is tracked and stays tracked until a cancel for it
\* succeeds; check_timeouts cancels exactly the tracked orders past the
\* timeout, and an order whose cancel fails stays tracked and past the
\* timeout, so the next check_timeouts attempts it again.
C32_PendingOrdersTracked ==
    [][/\ (last'.op = "place_limit_order" /\ last'.ret # "None")
          => last'.args.id \in Tracked(pending_orders')
       /\ (last'.op = "place_limit_order" /\ last'.ret = "None")
          => pending_orders' = pending_orders
       /\ \A o \in pending_orders :
            /\ o.id \notin Tracked(pending_orders') <=> CancelSucceeded(o)
            /\ (o.timed_out /\ o.id \in Tracked(pending_orders'))
                 => o \in pending_orders'
       /\ last'.op = "check_timeouts"
          => /\ last'.args.timed_out = TimedOut(pending_orders)
             /\ Tracked(pending_orders) \ Tracked(pending_orders')
                  = TimedOut(pending_orders) \ last'.args.cancel_failing
             /\ TimedOut(pending_orders')
                  = last'.args.cancel_failing]_vars

\* A check_timeouts has just failed to cancel order 1, which stays tracked
\* and past the timeout, while it cancelled order 2.
C32_Witness ==
    /\ last.op = "check_timeouts"
    /\ last.args.timed_out = {1, 2}
    /\ last.args.cancel_failing = {1}
    /\ pending_orders = {[id |-> 1, timed_out |-> TRUE]}

====
